---- MODULE Spec2Model ----
(***************************************************************************)
(* The supervisor of goscade (lifecycle.go): one top-level Run over a      *)
(* registration whose dependency graph is already built.  Every goroutine  *)
(* that Run and runComponent start is a process of the model; a context is *)
(* the cause it was cancelled with ("none" while it is not cancelled).     *)
(***************************************************************************)
EXTENDS Integers, FiniteSets, Sequences, TLC

VARIABLES
    compToParents,   \* lifecycle.go:337  the graph Run works on: component -> set of parents
    ctx,             \* the caller's context: "live", or cancelled (recording whether all were ready then)
    lifecycleCtx,    \* lifecycle.go:336  cause of lifecycleCtx
    probeCtx,        \* lifecycle.go:346  cause of state.probeCtx, per component
    runCtx,          \* lifecycle.go:348  cause of state.runCtx, per component
    teardownCtx,     \* lifecycle.go:350  cause of state.teardownCtx, per component
    status,          \* lifecycle.go:88   lc.status
    startLatch,      \* lifecycle.go:341  TRUE once close(startLatch) ran
    cwDone,          \* lifecycle.go:268  the child-watcher has cancelled runCtx
    proberPc,        \* lifecycle.go:272  position of the component's probe-waiter
    proberVal,       \* lifecycle.go:279  the error the probe-waiter returns
    proberErr,       \* errgroup of the probers: its first non-nil error
    pc,              \* lifecycle.go:286  position of the component's supervision task
    entered,         \* lifecycle.go:297  comp.Run has been invoked
    runErr,          \* lifecycle.go:294/315  value the supervision task returns
    retWhen,         \* whether runCtx was already cancelled when comp.Run returned
    retReady,        \* whether every component had signalled ready when comp.Run returned
    probeCalled,     \* the cause the component itself passed to readinessProbe
    runnerErr,       \* errgroup of the runners: its first non-nil error
    stopperPc,       \* lifecycle.go:372  goroutine that sets the status stopping
    aggPc,           \* lifecycle.go:382  goroutine that waits for the probers
    verdict,         \* lifecycle.go:390  argument of the readiness callback
    finPc,           \* lifecycle.go:396  goroutine that waits for the runners
    lcTeardownCtx,   \* lifecycle.go:395  cause of Run's own teardownCtx
    mainPc,          \* lifecycle.go:408  position of Run's own goroutine
    result,          \* lifecycle.go:413  value Run returned
    faults           \* the number of failures so far

lvars == <<compToParents, ctx, lifecycleCtx, probeCtx, runCtx, teardownCtx, status,
           startLatch, cwDone, proberPc, proberVal, proberErr,
           pc, entered, runErr, retWhen, retReady, probeCalled, runnerErr,
           stopperPc, aggPc, verdict, finPc, lcTeardownCtx, mainPc, result, faults>>

\* The registration table and the construction of the dependency graph
\* (lifecycle.Register, dependencies.go).
VARIABLES
    fields,                    \* the pointers held in the fields of each object
    components,                \* lifecycle.go:91  lc.components
    compToImplicitDeps,        \* lifecycle.go:90  lc.compToImplicitDeps
    ignoreCircularDependency,  \* lifecycle.go:95  lc.ignoreCircularDependency
    registerArg,               \* the component the last call of Register was given
    registerPanic,             \* whether the last call of Register panicked
    registerCalls,             \* the number of calls of Register so far
    caller,                    \* who builds the graph: Dependencies() or Run()
    gpc,                       \* position in buildCompToParents / findCircularDependencies
    graph,                     \* dependencies.go:258  the map compToParents being built
    roots,                     \* dependencies.go:200  keys the outer range has not produced yet
    root,                      \* dependencies.go:200  root
    queue,                     \* dependencies.go:201  queue
    node,                      \* dependencies.go:204  node
    parentsLeft,               \* dependencies.go:205  parents of node the inner range has not produced yet
    deps                       \* dependencies.go:231  the lists the calls of Dependencies() returned

gvars == <<fields, components, compToImplicitDeps, ignoreCircularDependency,
           registerArg, registerPanic, registerCalls, caller, gpc, graph, roots, root, queue,
           node, parentsLeft, deps>>

\* The helper Run(ctx, comp, ready) of helper.go, lines 49-69.
VARIABLES
    helperCtx,     \* helper.go:49  ctx: "live", or the error it ended with
    probe,         \* helper.go:50  cause of probe
    probeArg,      \* helper.go:54  what comp passed to its readiness probe
    goPc,          \* helper.go:53  position of the goroutine that runs comp.Run
    res,           \* helper.go:51  the value the goroutine sends on res
    helperPc,      \* position of the helper itself
    readyCalled,   \* helper.go:63  whether ready() was called
    helperErr      \* what the helper returned

hvars == <<helperCtx, probe, probeArg, goPc, res, helperPc, readyCalled, helperErr>>

\* A FIFOQueue and a LIFOQueue of queue.go, and what their callers saw.
VARIABLES
    fifo,          \* queue.go:20  FIFOQueue.items
    fifoPushes,    \* the number of calls of Push on the FIFOQueue
    fifoPopped,    \* the items its successful calls of Pop returned
    fifoOut,       \* what its last call of Pop returned
    lifo,          \* queue.go:48  LIFOQueue.items
    lifoPushes,    \* the number of calls of Push on the LIFOQueue
    lifoPopped,    \* the items its successful calls of Pop returned
    lifoOut,       \* what its last call of Pop returned
    qop,           \* the last call: the queue and the method
    qcalls         \* the number of calls so far

qvars == <<fifo, fifoPushes, fifoPopped, fifoOut, lifo, lifoPushes, lifoPopped, lifoOut,
           qop, qcalls>>

vars == <<lvars, gvars, hvars, qvars>>

-----------------------------------------------------------------------------
(* Values *)

None == "none"
nil == "nil"
Canceled == "Canceled"
DeadlineExceeded == "DeadlineExceeded"
UnexpectedCloseComponentError == "UnexpectedClose"
CascadeCloseComponentError == "CascadeClose"

\* The error a component produces itself (returned from Run or passed to its probe).
CompErr(c) == "err" \o c

LifecycleStatusIdle == "idle"
LifecycleStatusRunning == "running"
LifecycleStatusReady == "ready"
LifecycleStatusStopping == "stopping"
LifecycleStatusStopped == "stopped"

-----------------------------------------------------------------------------
(* Registrations *)

NoComponents == <<>>
Chain == [c \in {"A", "B", "C"} |->
            IF c = "A" THEN {} ELSE IF c = "B" THEN {"A"} ELSE {"B"}]
Triangle == [c \in {"A", "B", "C"} |->
               IF c = "A" THEN {} ELSE IF c = "B" THEN {"A"} ELSE {"A", "B"}]
Independent == [c \in {"A", "B"} |-> {}]

Registrations == {NoComponents, Independent, Chain, Triangle}

Comps == DOMAIN compToParents

\* A buildCompToChildren that gives children only to the keys of parents.
buildCompToChildren_KeysOnly(parents) ==
    [p \in DOMAIN parents |-> {child \in DOMAIN parents : p \in parents[child]}]

\* buildCompToChildren (dependencies.go:284-305): a component gets an entry when
\* it is the parent of some key of parents.
buildCompToChildren(parents) ==
    [p \in UNION {parents[child] : child \in DOMAIN parents} |->
        {child \in DOMAIN parents : p \in parents[child]}]

\* compToChildren[comp] as it is read, lifecycle.go:261: no entry, no children.
childrenOf(children, comp) == IF comp \in DOMAIN children THEN children[comp] ELSE {}

compToChildren ==
    [c \in Comps |-> childrenOf(buildCompToChildren(compToParents), c)]

-----------------------------------------------------------------------------
(* Contexts *)

\* A CancelCauseFunc that records a nil cause as it is.
CancelCause_KeepNil(cur, cause) == IF cur # None THEN cur ELSE cause

\* A CancelCauseFunc that records the cause of every call.
CancelCause_Overwrite(cur, cause) == IF cause = nil THEN Canceled ELSE cause

\* A CancelCauseFunc: the first cause wins, a nil cause is recorded as Canceled.
CancelCause(cur, cause) ==
    IF cur # None THEN cur ELSE IF cause = nil THEN Canceled ELSE cause

\* A waitCtxErr that reads every cause as a cancellation without error.
waitCtxErr_AllNil(cause) == nil

\* What waitCtxErr returns for a context that is done.
waitCtxErr(cause) == IF cause = Canceled THEN nil ELSE cause

\* lifecycleCtxCancel(cause): cancels lifecycleCtx and with it every probeCtx,
\* which are its children, unless they were cancelled before.
lifecycleCtxCancel(cause) ==
    /\ lifecycleCtx' = CancelCause(lifecycleCtx, cause)
    /\ probeCtx' = [c \in Comps |->
                      IF lifecycleCtx = None
                      THEN CancelCause(probeCtx[c], CancelCause(None, cause))
                      ELSE probeCtx[c]]

\* The value setStatus(newStatus) returns: false when the transition is refused.
setStatusOk(newStatus) ==
    IF newStatus = LifecycleStatusStopping
    THEN status = LifecycleStatusRunning \/ status = LifecycleStatusReady
    ELSE IF newStatus = LifecycleStatusReady
    THEN status = LifecycleStatusRunning
    ELSE TRUE

\* A setStatus that accepts every transition.
setStatus_Unguarded(newStatus) == newStatus

\* The value of lc.status after setStatus(newStatus).
setStatus(newStatus) ==
    IF newStatus = LifecycleStatusStopping
          /\ status # LifecycleStatusRunning /\ status # LifecycleStatusReady
    THEN status
    ELSE IF newStatus = LifecycleStatusReady /\ status # LifecycleStatusRunning
    THEN status
    ELSE newStatus

\* errgroup.Group: the first non-nil error a function returns is kept.
groupErr(cur, err) == IF cur = None /\ err # nil THEN err ELSE cur

AllSelfReady == \A c \in Comps : probeCalled[c] = nil

-----------------------------------------------------------------------------
(* Bounds *)

\* The number of failures in one run: a component fails when it passes an
\* error to its probe, lets the start timeout elapse, returns before its context
\* is cancelled, or returns an error of its own.
MaxFaults == 1

\* A component may fail while fewer than MaxFaults failures have happened.
MayFail == faults < MaxFaults

-----------------------------------------------------------------------------
\* The state of a lifecycle whose Run has started its goroutines (lines 336-406).
RunInit ==
    /\ compToParents \in Registrations
    /\ ctx = "live"
    /\ lifecycleCtx = None
    /\ probeCtx = [c \in Comps |-> None]
    /\ runCtx = [c \in Comps |-> None]
    /\ teardownCtx = [c \in Comps |-> None]
    /\ status = LifecycleStatusIdle
    /\ startLatch = FALSE
    /\ cwDone = [c \in Comps |-> FALSE]
    /\ proberPc = [c \in Comps |-> "wait"]
    /\ proberVal = [c \in Comps |-> nil]
    /\ proberErr = None
    /\ pc = [c \in Comps |-> "gate"]
    /\ entered = [c \in Comps |-> FALSE]
    /\ runErr = [c \in Comps |-> None]
    /\ retWhen = [c \in Comps |-> "na"]
    /\ retReady = [c \in Comps |-> FALSE]
    /\ probeCalled = [c \in Comps |-> None]
    /\ runnerErr = None
    /\ stopperPc = "wait"
    /\ aggPc = "wait"
    /\ verdict = None
    /\ finPc = "wait"
    /\ lcTeardownCtx = None
    /\ mainPc = "start"
    /\ result = None
    /\ faults = 0

\* The graph was built before: the registration plays no part in the run.
GraphDone ==
    /\ fields = <<>>
    /\ components = {}
    /\ compToImplicitDeps = <<>>
    /\ ignoreCircularDependency = FALSE
    /\ registerArg = None
    /\ registerPanic = FALSE
    /\ registerCalls = 0
    /\ caller = "Run"
    /\ gpc = "returned"
    /\ graph = <<>>
    /\ roots = {}
    /\ root = None
    /\ queue = <<>>
    /\ node = None
    /\ parentsLeft = {}
    /\ deps = <<>>

\* No helper Run is under way.
HelperIdle ==
    /\ helperCtx = "live"
    /\ probe = None
    /\ probeArg = None
    /\ goPc = "done"
    /\ res = None
    /\ helperPc = "returned"
    /\ readyCalled = FALSE
    /\ helperErr = None

\* Two queues nobody has used yet.
QueueInit ==
    /\ fifo = <<>>
    /\ fifoPushes = 0
    /\ fifoPopped = {}
    /\ fifoOut = None
    /\ lifo = <<>>
    /\ lifoPushes = 0
    /\ lifoPopped = {}
    /\ lifoOut = None
    /\ qop = None
    /\ qcalls = 0

Init == RunInit /\ GraphDone /\ HelperIdle /\ QueueInit

-----------------------------------------------------------------------------
(* The caller *)

\* The context handed to Run is cancelled (by the caller or, with the shutdown
\* hook, by a signal); lifecycleCtx is its child.  Once lifecycleCtx is done the
\* cancellation changes nothing Run reads, so it is a step only before that.
CtxCancel ==
    /\ ctx = "live"
    /\ lifecycleCtx = None
    /\ ctx' = IF AllSelfReady THEN "cancelledReady" ELSE "cancelledEarly"
    /\ lifecycleCtxCancel(Canceled)
    /\ UNCHANGED <<qvars, hvars, gvars, compToParents, runCtx, teardownCtx, status, startLatch, cwDone,
                   proberPc, proberVal, proberErr, pc, entered, runErr, retWhen,
                   retReady, probeCalled, runnerErr, stopperPc, aggPc, verdict, finPc,
                   lcTeardownCtx, mainPc, result, faults>>

-----------------------------------------------------------------------------
(* runComponent: the parent-waiter, lines 249-257 *)

\* The values the goroutine can send first on waitAllParentProbes.  It waits for
\* the parents one after the other, in the order the map iteration gives, and a
\* context keeps its cause once it is done: so it can send the failure of any
\* parent whose probeCtx failed, and nil once every probeCtx is done without
\* failure.
waitAllParentProbes(c) ==
    {waitCtxErr(probeCtx[parentComp]) :
        parentComp \in {p \in compToParents[c] :
                           probeCtx[p] # None /\ waitCtxErr(probeCtx[p]) # nil}}
    \cup (IF \A p \in compToParents[c] :
                probeCtx[p] # None /\ waitCtxErr(probeCtx[p]) = nil
          THEN {nil} ELSE {})

\* The goroutine is blocked for ever.  After it has sent the failure of a parent
\* (line 252) it leaves the loop and sends nil on the same unbuffered channel
\* (line 256), from which the supervision task receives only once (line 290).
parentWaiterBlocked(c) == pc[c] # "gate" /\ ~entered[c]

-----------------------------------------------------------------------------
(* runComponent: the child-watcher, lines 260-269 *)

\* A child-watcher that only waits for lifecycleCtx, not for the children.
childWatcherCauses_NoWait(c) ==
    IF lifecycleCtx # None THEN {waitCtxErr(lifecycleCtx)} ELSE {}

\* A child-watcher that cancels the run at once.
childWatcherCauses_Eager(c) == {nil}

\* The causes the goroutine can pass first to state.cancelRun: the failure of a
\* child whose teardownCtx is done with one (line 263), or, once every
\* teardownCtx is done without failure and lifecycleCtx is done, what
\* waitCtxErr(lifecycleCtx) returns (line 268).
childWatcherCauses(c) ==
    {waitCtxErr(teardownCtx[childComp]) :
        childComp \in {ch \in compToChildren[c] :
                          teardownCtx[ch] # None /\ waitCtxErr(teardownCtx[ch]) # nil}}
    \cup (IF /\ \A ch \in compToChildren[c] :
                   teardownCtx[ch] # None /\ waitCtxErr(teardownCtx[ch]) = nil
             /\ lifecycleCtx # None
          THEN {waitCtxErr(lifecycleCtx)} ELSE {})

ChildWatcher(c) ==
    /\ ~cwDone[c]
    /\ \E cause \in childWatcherCauses(c) :
          runCtx' = [runCtx EXCEPT ![c] = CancelCause(@, cause)]
    /\ cwDone' = [cwDone EXCEPT ![c] = TRUE]
    /\ UNCHANGED <<qvars, hvars, gvars, compToParents, ctx, lifecycleCtx, probeCtx, teardownCtx, status,
                   startLatch, proberPc, proberVal, proberErr, pc, entered, runErr,
                   retWhen, retReady, probeCalled, runnerErr, stopperPc, aggPc, verdict,
                   finPc, lcTeardownCtx, mainPc, result, faults>>

-----------------------------------------------------------------------------
(* runComponent: the probe-waiter, lines 272-284 *)

\* Where a prober that is about to return err goes: handing an error to the
\* errgroup is a step of its own only while it can change the group's error.
proberNext(err) == IF groupErr(proberErr, err) = proberErr THEN "done" ELSE "ret"

\* waitCtxErr(probeCtx) returns a failure because state.probeCtx is done with
\* one: lifecycleCtxCancel(CascadeCloseComponentError), line 278.
ProberWake(c) ==
    /\ proberPc[c] = "wait"
    /\ probeCtx[c] # None
    /\ waitCtxErr(probeCtx[c]) # nil
    /\ proberVal' = [proberVal EXCEPT ![c] = waitCtxErr(probeCtx[c])]
    /\ lifecycleCtxCancel(CascadeCloseComponentError)
    /\ proberPc' = [proberPc EXCEPT ![c] = proberNext(waitCtxErr(probeCtx[c]))]
    /\ UNCHANGED <<qvars, hvars, gvars, compToParents, ctx, runCtx, teardownCtx, status, startLatch, cwDone,
                   proberErr, pc, entered, runErr, retWhen, retReady, probeCalled,
                   runnerErr, stopperPc, aggPc, verdict, finPc, lcTeardownCtx, mainPc,
                   result, faults>>

\* A prober that got nil from waitCtxErr and never returns.
proberReturned_Strict(c) == proberPc[c] = "done"

\* The prober has returned.  A prober whose probeCtx is done without failure
\* only logs and returns nil (lines 282-283), which nothing but prober.Wait()
\* observes: it counts as returned from the moment its probeCtx is done.
proberReturned(c) ==
    \/ proberPc[c] = "done"
    \/ proberPc[c] = "wait" /\ probeCtx[c] # None /\ waitCtxErr(probeCtx[c]) = nil

\* waitCtxErr(probeCtx) returns because lc.startTimeout elapsed first.
ProberTimeout(c) ==
    /\ MayFail
    /\ faults' = faults + 1
    /\ proberPc[c] = "wait"
    /\ probeCtx[c] = None
    /\ proberPc' = [proberPc EXCEPT ![c] = "cancel"]
    /\ proberVal' = [proberVal EXCEPT ![c] = DeadlineExceeded]
    /\ UNCHANGED <<qvars, hvars, gvars, compToParents, ctx, lifecycleCtx, probeCtx, runCtx, teardownCtx,
                   status, startLatch, cwDone, proberErr, pc, entered, runErr, retWhen,
                   retReady, probeCalled, runnerErr, stopperPc, aggPc, verdict, finPc,
                   lcTeardownCtx, mainPc, result>>

\* lifecycleCtxCancel(CascadeCloseComponentError) after the timeout, line 278.
ProberCancel(c) ==
    /\ proberPc[c] = "cancel"
    /\ lifecycleCtxCancel(CascadeCloseComponentError)
    /\ proberPc' = [proberPc EXCEPT ![c] = proberNext(proberVal[c])]
    /\ UNCHANGED <<qvars, hvars, gvars, compToParents, ctx, runCtx, teardownCtx, status, startLatch, cwDone,
                   proberVal, proberErr, pc, entered, runErr, retWhen, retReady,
                   probeCalled, runnerErr, stopperPc, aggPc, verdict, finPc,
                   lcTeardownCtx, mainPc, result, faults>>

\* return err, line 279: the errgroup keeps the first error.
ProberReturn(c) ==
    /\ proberPc[c] = "ret"
    /\ proberErr' = groupErr(proberErr, proberVal[c])
    /\ proberPc' = [proberPc EXCEPT ![c] = "done"]
    /\ UNCHANGED <<qvars, hvars, gvars, compToParents, ctx, lifecycleCtx, probeCtx, runCtx, teardownCtx,
                   status, startLatch, cwDone, proberVal, pc, entered, runErr, retWhen,
                   retReady, probeCalled, runnerErr, stopperPc, aggPc, verdict, finPc,
                   lcTeardownCtx, mainPc, result, faults>>

-----------------------------------------------------------------------------
(* runComponent: the supervision task, lines 286-316 *)

\* The value of runErr when the defer statement of line 287 is executed: Go
\* evaluates the arguments of a deferred call at the defer statement.
DeferredRunErr == nil

\* The deferred state.cancelTeardown(runErr) of line 287, run as the function returns.
cancelTeardown(c) ==
    teardownCtx' = [teardownCtx EXCEPT ![c] = CancelCause(@, DeferredRunErr)]

\* Where a supervision task that is about to return err goes: handing an error
\* to the errgroup is a step of its own only while it can change the group's error.
runnerNext(err) == IF groupErr(runnerErr, err) = runnerErr THEN "done" ELSE "group"

\* <-startLatch, then err := <-waitAllParentProbes.  A parent's failure goes into
\* this component's probeCtx and runCtx and is returned (lines 291-295, then
\* the deferred call); otherwise comp.Run is invoked.
RunnerStart(c) ==
    /\ pc[c] = "gate"
    /\ startLatch
    /\ \E err \in waitAllParentProbes(c) :
          IF err # nil /\ err # Canceled
          THEN /\ probeCtx' = [probeCtx EXCEPT ![c] = CancelCause(@, err)]
               /\ runCtx' = [runCtx EXCEPT ![c] = CancelCause(@, err)]
               /\ runErr' = [runErr EXCEPT ![c] = err]
               /\ cancelTeardown(c)
               /\ pc' = [pc EXCEPT ![c] = runnerNext(err)]
               /\ UNCHANGED entered
          ELSE /\ entered' = [entered EXCEPT ![c] = TRUE]
               /\ pc' = [pc EXCEPT ![c] = "running"]
               /\ UNCHANGED <<probeCtx, runCtx, runErr, teardownCtx>>
    /\ UNCHANGED <<qvars, hvars, gvars, compToParents, ctx, lifecycleCtx, status, startLatch, cwDone,
                   proberPc, proberVal, proberErr, retWhen, retReady, probeCalled,
                   runnerErr, stopperPc, aggPc, verdict, finPc, lcTeardownCtx, mainPc,
                   result, faults>>

\* The component, inside Run, calls readinessProbe(cause), which is state.cancelProbe.
CompProbe(c) ==
    /\ pc[c] = "running"
    /\ probeCalled[c] = None
    /\ \E cause \in {nil} \cup (IF MayFail THEN {CompErr(c)} ELSE {}) :
          /\ probeCalled' = [probeCalled EXCEPT ![c] = cause]
          /\ faults' = IF cause = nil THEN faults ELSE faults + 1
          /\ probeCtx' = [probeCtx EXCEPT ![c] = CancelCause(@, cause)]
    /\ UNCHANGED <<qvars, hvars, gvars, compToParents, ctx, lifecycleCtx, runCtx, teardownCtx, status,
                   startLatch, cwDone, proberPc, proberVal, proberErr, pc, entered,
                   runErr, retWhen, retReady, runnerErr, stopperPc, aggPc, verdict,
                   finPc, lcTeardownCtx, mainPc, result>>

\* What a component may return from Run: nil or ctx.Err() once its context is
\* cancelled; when it fails, nil before that, or an error of its own.
RunResults(c) ==
    (IF MayFail THEN {nil, CompErr(c)} ELSE {})
    \cup (IF runCtx[c] # None THEN {nil, Canceled} ELSE {})

\* A supervision task that cancels the lifecycle with whatever Run returned.
postRunCause_Unchecked(err) == err

\* The cause lines 298-302 cancel the lifecycle with when comp.Run returned err.
postRunCause(err) == IF err = nil THEN UnexpectedCloseComponentError ELSE err

\* The value the supervision task returns when comp.Run returned err, line 315.
returnedErr(err) == err

\* comp.Run returns err (line 297); the lifecycle is cancelled with it, or with
\* UnexpectedCloseComponentError when it is nil (lines 298-302); the function
\* returns err and its deferred call runs.
RunnerPostRun(c) ==
    /\ pc[c] = "running"
    /\ \E err \in RunResults(c) :
          /\ runErr' = [runErr EXCEPT ![c] = returnedErr(err)]
          /\ lifecycleCtxCancel(postRunCause(err))
          /\ pc' = [pc EXCEPT ![c] = runnerNext(returnedErr(err))]
          /\ faults' = IF err = CompErr(c) \/ runCtx[c] = None THEN faults + 1 ELSE faults
    /\ retWhen' = [retWhen EXCEPT ![c] = IF runCtx[c] # None THEN "cancelled" ELSE "early"]
    /\ retReady' = [retReady EXCEPT ![c] = AllSelfReady]
    /\ cancelTeardown(c)
    /\ UNCHANGED <<qvars, hvars, gvars, compToParents, ctx, runCtx, status, startLatch, cwDone, proberPc,
                   proberVal, proberErr, entered, probeCalled, runnerErr, stopperPc,
                   aggPc, verdict, finPc, lcTeardownCtx, mainPc, result>>

\* The errgroup takes the returned error and counts the function as done.
RunnerExit(c) ==
    /\ pc[c] = "group"
    /\ runnerErr' = groupErr(runnerErr, runErr[c])
    /\ pc' = [pc EXCEPT ![c] = "done"]
    /\ UNCHANGED <<qvars, hvars, gvars, compToParents, ctx, lifecycleCtx, probeCtx, runCtx, teardownCtx,
                   status, startLatch, cwDone, proberPc, proberVal, proberErr, entered,
                   runErr, retWhen, retReady, probeCalled, stopperPc, aggPc, verdict,
                   finPc, lcTeardownCtx, mainPc, result, faults>>

-----------------------------------------------------------------------------
(* Run: its goroutines, lines 372-406 *)

\* Lines 372-379: once lifecycleCtx is done, setStatus(Stopping).
Stopper ==
    /\ stopperPc = "wait"
    /\ lifecycleCtx # None
    /\ status' = setStatus(LifecycleStatusStopping)
    /\ stopperPc' = "done"
    /\ UNCHANGED <<qvars, hvars, gvars, compToParents, ctx, lifecycleCtx, probeCtx, runCtx, teardownCtx,
                   startLatch, cwDone, proberPc, proberVal, proberErr, pc, entered,
                   runErr, retWhen, retReady, probeCalled, runnerErr, aggPc, verdict,
                   finPc, lcTeardownCtx, mainPc, result, faults>>

\* Lines 382-392: prober.Wait(), then the status and the readiness callback.
Aggregator ==
    /\ aggPc = "wait"
    /\ \A c \in Comps : proberReturned(c)
    /\ LET probeErr == IF proberErr = None THEN nil ELSE proberErr IN
          IF probeErr = nil \/ probeErr = Canceled
          THEN /\ status' = setStatus(LifecycleStatusReady)
               /\ verdict' = nil
          ELSE /\ verdict' = probeErr
               /\ UNCHANGED status
    /\ aggPc' = "done"
    /\ UNCHANGED <<qvars, hvars, gvars, compToParents, ctx, lifecycleCtx, probeCtx, runCtx, teardownCtx,
                   startLatch, cwDone, proberPc, proberVal, proberErr, pc, entered,
                   runErr, retWhen, retReady, probeCalled, runnerErr, stopperPc, finPc,
                   lcTeardownCtx, mainPc, result, faults>>

\* A runner.Wait() that returns at once.
runnerWait_NoWait == TRUE

\* runner.Wait() (line 396) returns when every function given to runner.Go
\* (line 286) has returned.
runnerWait == \A c \in Comps : pc[c] = "done"

\* Lines 396-406: runner.Wait(), setStatus(Stopped), cancelTeardown(err).
Finisher ==
    /\ finPc = "wait"
    /\ runnerWait
    /\ status' = setStatus(LifecycleStatusStopped)
    /\ lcTeardownCtx' = CancelCause(lcTeardownCtx,
                                    IF runnerErr = None THEN nil ELSE runnerErr)
    /\ finPc' = "done"
    /\ UNCHANGED <<qvars, hvars, gvars, compToParents, ctx, lifecycleCtx, probeCtx, runCtx, teardownCtx,
                   startLatch, cwDone, proberPc, proberVal, proberErr, pc, entered,
                   runErr, retWhen, retReady, probeCalled, runnerErr, stopperPc, aggPc,
                   verdict, mainPc, result, faults>>

-----------------------------------------------------------------------------
(* Run: its own goroutine, lines 408-413 *)

MainSetRunning ==
    /\ mainPc = "start"
    /\ status' = setStatus(LifecycleStatusRunning)
    /\ mainPc' = "latch"
    /\ UNCHANGED <<qvars, hvars, gvars, compToParents, ctx, lifecycleCtx, probeCtx, runCtx, teardownCtx,
                   startLatch, cwDone, proberPc, proberVal, proberErr, pc, entered,
                   runErr, retWhen, retReady, probeCalled, runnerErr, stopperPc, aggPc,
                   verdict, finPc, lcTeardownCtx, result, faults>>

MainCloseLatch ==
    /\ mainPc = "latch"
    /\ startLatch' = TRUE
    /\ mainPc' = "wait"
    /\ UNCHANGED <<qvars, hvars, gvars, compToParents, ctx, lifecycleCtx, probeCtx, runCtx, teardownCtx,
                   status, cwDone, proberPc, proberVal, proberErr, pc, entered, runErr,
                   retWhen, retReady, probeCalled, runnerErr, stopperPc, aggPc, verdict,
                   finPc, lcTeardownCtx, result, faults>>

\* <-teardownCtx.Done(); lifecycleCtxCancel(context.Canceled); return context.Cause(teardownCtx)
MainReturn ==
    /\ mainPc = "wait"
    /\ lcTeardownCtx # None
    /\ lifecycleCtxCancel(Canceled)
    /\ result' = lcTeardownCtx
    /\ mainPc' = "returned"
    /\ UNCHANGED <<qvars, hvars, gvars, compToParents, ctx, runCtx, teardownCtx, status, startLatch, cwDone,
                   proberPc, proberVal, proberErr, pc, entered, runErr, retWhen,
                   retReady, probeCalled, runnerErr, stopperPc, aggPc, verdict, finPc,
                   lcTeardownCtx, faults>>

-----------------------------------------------------------------------------
Next ==
    \/ CtxCancel
    \/ MainSetRunning
    \/ MainCloseLatch
    \/ MainReturn
    \/ Stopper
    \/ Aggregator
    \/ Finisher
    \/ \E c \in Comps : ChildWatcher(c)
    \/ \E c \in Comps : ProberWake(c)
    \/ \E c \in Comps : ProberTimeout(c)
    \/ \E c \in Comps : ProberCancel(c)
    \/ \E c \in Comps : ProberReturn(c)
    \/ \E c \in Comps : RunnerStart(c)
    \/ \E c \in Comps : CompProbe(c)
    \/ \E c \in Comps : RunnerPostRun(c)
    \/ \E c \in Comps : RunnerExit(c)

Spec == Init /\ [][Next]_vars

-----------------------------------------------------------------------------
(* Fairness: every goroutine of the engine that can take a step takes it, and *)
(* a component returns from Run once its context is cancelled.                *)

RespectCancel(c) == runCtx[c] # None /\ RunnerPostRun(c)

FairSpec ==
    /\ Spec
    /\ WF_vars(MainSetRunning) /\ WF_vars(MainCloseLatch) /\ WF_vars(MainReturn)
    /\ WF_vars(Stopper) /\ WF_vars(Aggregator) /\ WF_vars(Finisher)
    /\ \A c \in {"A", "B", "C"} :
          /\ WF_vars(c \in Comps /\ ChildWatcher(c))
          /\ WF_vars(c \in Comps /\ ProberWake(c))
          /\ WF_vars(c \in Comps /\ ProberCancel(c))
          /\ WF_vars(c \in Comps /\ ProberReturn(c))
          /\ WF_vars(c \in Comps /\ RunnerStart(c))
          /\ WF_vars(c \in Comps /\ RunnerExit(c))
          /\ WF_vars(c \in Comps /\ RespectCancel(c))

\* The start timeout: context.WithTimeout (line 273) ends the prober's wait, so a
\* component that is inside Run and has not called its probe either calls it
\* or has its prober time out.
TimedSpec ==
    /\ FairSpec
    /\ \A c \in {"A", "B", "C"} :
          WF_vars(c \in Comps /\ (CompProbe(c) \/ ProberTimeout(c)))

-----------------------------------------------------------------------------
(* The registration table: lifecycle.Register, lines 157-173 *)

\* Pointers to structs that implement Component.
Objects == {"A", "B", "C"}

\* A Component held by value, and the nil Component.
StructValue == "V"
NilComponent == "Nil"

\* A check of the kind that lets everything pass.
IsPointer_Any(comp) == TRUE

\* reflect.ValueOf(comp).Kind() == reflect.Pointer, line 160
IsPointer(comp) == comp \in Objects

\* The pointer fields of the objects: none; B holds A and C holds B; A and B
\* hold each other and C holds A.
NoFields == [o \in Objects |-> {}]
FieldChain == [o \in Objects |->
                 IF o = "B" THEN {"A"} ELSE IF o = "C" THEN {"B"} ELSE {}]
FieldCycle == [o \in Objects |->
                 IF o = "A" THEN {"B"} ELSE IF o = "B" THEN {"A"} ELSE {"A"}]
Structures == {NoFields, FieldChain, FieldCycle}

\* The number of calls of Register, and of implicitDeps in one call.
MaxRegister == 3
MaxDeps == 2

ImplicitDeps == UNION {[1..n -> Objects \cup {StructValue}] : n \in 0..MaxDeps}

\* A Register that does not register the implicit dependencies.
RECURSIVE Register_DepsUnregistered(_, _, _)
Register_DepsUnregistered(t, comp, implicitDeps) ==
    LET t1 == IF comp \in t.components THEN t
              ELSE IF ~IsPointer(comp) THEN [t EXCEPT !.panic = TRUE]
              ELSE [t EXCEPT !.components = @ \cup {comp},
                             !.compToImplicitDeps = (comp :> {}) @@ @]
    IN  IF t1.panic \/ implicitDeps = <<>> THEN t1
        ELSE Register_DepsUnregistered(
                 [t1 EXCEPT !.compToImplicitDeps[comp] = @ \cup {Head(implicitDeps)}],
                 comp, Tail(implicitDeps))

\* lc.Register(comp, implicitDeps...) on the table t: the table it leaves, with
\* panic set when it panicked (line 161).  The loop of lines 169-172 registers
\* each dependency before it adds it to the set of comp.
RECURSIVE Register(_, _, _)
Register(t, comp, implicitDeps) ==
    LET t1 == IF comp \in t.components THEN t
              ELSE IF ~IsPointer(comp) THEN [t EXCEPT !.panic = TRUE]
              ELSE [t EXCEPT !.components = @ \cup {comp},
                             !.compToImplicitDeps = (comp :> {}) @@ @]
    IN  IF t1.panic \/ implicitDeps = <<>> THEN t1
        ELSE LET dep == Head(implicitDeps)
                 t2 == Register(t1, dep, <<>>)
             IN  IF t2.panic THEN t2
                 ELSE Register([t2 EXCEPT !.compToImplicitDeps[comp] = @ \cup {dep}],
                               comp, Tail(implicitDeps))

\* The registration may change while nobody has built the graph.
RegisterCall ==
    /\ gpc = "idle"
    /\ deps = <<>>
    /\ registerCalls < MaxRegister
    /\ \E comp \in Objects \cup {StructValue, NilComponent}, implicitDeps \in ImplicitDeps :
          LET t == Register([components |-> components,
                             compToImplicitDeps |-> compToImplicitDeps,
                             panic |-> FALSE], comp, implicitDeps)
          IN  /\ components' = t.components
              /\ compToImplicitDeps' = t.compToImplicitDeps
              /\ registerArg' = comp
              /\ registerPanic' = t.panic
    /\ registerCalls' = registerCalls + 1
    /\ UNCHANGED <<qvars, hvars, lvars, fields, ignoreCircularDependency, caller, gpc, graph, roots,
                   root, queue, node, parentsLeft, deps>>

-----------------------------------------------------------------------------
(* The dependency graph: dependencies.go, lines 110-305 *)

\* The walk of findParentComponents (lines 138-183) over the pointers reachable
\* from root: a registered pointer is a parent and is not descended into, any
\* other pointer is descended into, and no pointer is looked at twice.
RECURSIVE reflectWalk(_, _, _)
reflectWalk(frontier, visited, parents) ==
    IF frontier = {} THEN parents
    ELSE LET ptr == CHOOSE x \in frontier : TRUE
         IN  IF ptr \in visited
             THEN reflectWalk(frontier \ {ptr}, visited, parents)
             ELSE IF ptr \in components
             THEN reflectWalk(frontier \ {ptr}, visited \cup {ptr}, parents \cup {ptr})
             ELSE reflectWalk((frontier \ {ptr}) \cup fields[ptr], visited \cup {ptr}, parents)

\* The structural parents of root: the registered pointers its fields reach.
structuralParents(root_) == reflectWalk(fields[root_], {root_}, {})

\* A findParentComponents that forgets the implicit dependencies.
findParentComponents_StructuralOnly(root_) == structuralParents(root_)

\* findParentComponents (lines 126-186): the walk starts from the implicit
\* dependencies of root (line 127) and root itself is not a parent (line 150).
findParentComponents(root_) ==
    reflectWalk(fields[root_], {root_}, compToImplicitDeps[root_])

\* The length the queue of findCircularDependencies may reach in the model.
MaxQueue == 3

\* Dependencies() (line 230) and Run (lifecycle.go:337) call buildCompToParents
\* (lines 257-274): every component gets an entry, then the cycles are looked for.
buildCompToParents(who) ==
    /\ gpc = "idle"
    /\ caller' = who
    /\ graph' = [comp \in components |-> findParentComponents(comp)]
    /\ roots' = components
    /\ gpc' = "range"
    /\ UNCHANGED <<qvars, hvars, lvars, fields, components, compToImplicitDeps,
                   ignoreCircularDependency, registerArg, registerPanic, registerCalls,
                   root, queue, node, parentsLeft, deps>>

DependenciesCall == deps = <<>> /\ buildCompToParents("Dependencies")

RunCall == buildCompToParents("Run")

\* The outer range of line 200 produces the next key: a key deleted before it was
\* reached is not produced, and the order is the map's.
RangeRoot ==
    /\ gpc = "range"
    /\ \E r \in roots \cap DOMAIN graph :
          /\ root' = r
          /\ roots' = roots \ {r}
          /\ queue' = <<r>>
    /\ node' = None
    /\ parentsLeft' = {}
    /\ gpc' = "bfs"
    /\ UNCHANGED <<qvars, hvars, lvars, fields, components, compToImplicitDeps,
                   ignoreCircularDependency, registerArg, registerPanic, registerCalls,
                   caller, graph, deps>>

\* compToParents[node], the map the inner range of line 205 iterates.
parentsOfNode(n) == IF n \in DOMAIN graph THEN graph[n] ELSE {}

\* Lines 203-204: the queue is empty and the outer range goes on, or the head of
\* the queue is popped and the inner range starts.
PopNode ==
    /\ gpc = "bfs"
    /\ IF queue = <<>>
       THEN /\ gpc' = "range"
            /\ UNCHANGED <<queue, node, parentsLeft>>
       ELSE /\ node' = Head(queue)
            /\ queue' = Tail(queue)
            /\ parentsLeft' = parentsOfNode(Head(queue))
            /\ gpc' = IF parentsOfNode(Head(queue)) = {} THEN "bfs" ELSE "parents"
    /\ UNCHANGED <<qvars, hvars, lvars, fields, components, compToImplicitDeps,
                   ignoreCircularDependency, registerArg, registerPanic, registerCalls,
                   caller, graph, roots, root, deps>>

\* A deletion that leaves the map as it is.
delete_Nothing(m, k) == m

\* A test of line 206 that takes every parent for the root.
closesCycle_Always(parent) == TRUE

\* map deletion, line 208
delete(m, k) == [x \in DOMAIN m \ {k} |-> m[x]]

\* parent == root, line 206
closesCycle(parent) == parent = root

\* Lines 205-217: one parent of node.  A parent that is the root closes a cycle:
\* the entry of node is deleted, or the construction panics; any other parent is
\* pushed.
VisitParent ==
    /\ gpc = "parents"
    /\ \E parent \in parentsLeft :
          /\ parentsLeft' = parentsLeft \ {parent}
          /\ IF closesCycle(parent)
             THEN IF ignoreCircularDependency
                  THEN /\ graph' = delete(graph, node)
                       /\ gpc' = IF parentsLeft \ {parent} = {} THEN "bfs" ELSE "parents"
                       /\ UNCHANGED queue
                  ELSE /\ gpc' = "panic"
                       /\ UNCHANGED <<graph, queue>>
             ELSE IF Len(queue) < MaxQueue
                  THEN /\ queue' = Append(queue, parent)
                       /\ gpc' = IF parentsLeft \ {parent} = {} THEN "bfs" ELSE "parents"
                       /\ UNCHANGED graph
                  ELSE /\ gpc' = "overflow"
                       /\ UNCHANGED <<graph, queue>>
    /\ UNCHANGED <<qvars, hvars, lvars, fields, components, compToImplicitDeps,
                   ignoreCircularDependency, registerArg, registerPanic, registerCalls,
                   caller, roots, root, node, deps>>

\* The list Dependencies() builds from the graph (lines 232-245): every registered
\* component is a key, a component without an entry has the empty list.
Dependencies == [comp \in components |-> parentsOfNode(comp)]

\* Line 200 has no key left: findCircularDependencies and buildCompToParents
\* return and their locals are gone.  Dependencies() returns its list; Run goes
\* on with the graph.
BuildReturn ==
    /\ gpc = "range"
    /\ roots \cap DOMAIN graph = {}
    /\ IF caller = "Dependencies"
       THEN deps' = <<Dependencies>> /\ gpc' = "idle"
       ELSE deps' = deps /\ gpc' = "returned"
    /\ root' = None
    /\ node' = None
    /\ parentsLeft' = {}
    /\ UNCHANGED <<qvars, hvars, lvars, fields, components, compToImplicitDeps,
                   ignoreCircularDependency, registerArg, registerPanic, registerCalls,
                   caller, graph, roots, queue>>

GraphInit ==
    /\ fields \in Structures
    /\ components = {}
    /\ compToImplicitDeps = <<>>
    /\ ignoreCircularDependency \in BOOLEAN
    /\ registerArg = None
    /\ registerPanic = FALSE
    /\ registerCalls = 0
    /\ caller = None
    /\ gpc = "idle"
    /\ graph = <<>>
    /\ roots = {}
    /\ root = None
    /\ queue = <<>>
    /\ node = None
    /\ parentsLeft = {}
    /\ deps = <<>>

GInit == RunInit /\ compToParents = NoComponents /\ GraphInit /\ HelperIdle /\ QueueInit

GNext ==
    \/ RegisterCall
    \/ DependenciesCall
    \/ RunCall
    \/ RangeRoot
    \/ PopNode
    \/ VisitParent
    \/ BuildReturn

GraphSpec == GInit /\ [][GNext]_vars

\* The construction is one goroutine that keeps running.
GraphFairSpec == GraphSpec /\ WF_vars(RangeRoot \/ PopNode \/ VisitParent \/ BuildReturn)

-----------------------------------------------------------------------------
(* The helper Run: helper.go, lines 49-69 *)

\* The errors of the component: returned from its Run, passed to its probe.
RunError == "component error"
ProbeError == "probe error"

\* fmt.Errorf("readiness probe failed: %w", err), fmt.Errorf("lifecycle run failed: %w", err)
Wrap(msg, err) == msg \o ": " \o err

\* ctx is cancelled, or its deadline expires; probe is its child (line 50).
HelperCtxDone ==
    /\ helperCtx = "live"
    /\ \E err \in {Canceled, DeadlineExceeded} :
          /\ helperCtx' = err
          /\ probe' = CancelCause(probe, err)
    /\ UNCHANGED <<qvars, lvars, gvars, probeArg, goPc, res, helperPc, readyCalled, helperErr>>

\* comp.Run calls its readiness probe: cancelProbe(err), line 54.
HelperCompProbe ==
    /\ goPc = "run"
    /\ probeArg = None
    /\ \E err \in {nil, ProbeError} :
          /\ probeArg' = err
          /\ probe' = CancelCause(probe, err)
    /\ UNCHANGED <<qvars, lvars, gvars, helperCtx, goPc, res, helperPc, readyCalled, helperErr>>

\* comp.Run returns, with nil, with an error of its own or with ctx.Err(), and
\* the goroutine starts to send on res, which has no buffer (lines 51, 54).
HelperCompReturn ==
    /\ goPc = "run"
    /\ \E err \in {nil, RunError} \cup ({helperCtx} \ {"live"}) : res' = err
    /\ goPc' = "send"
    /\ UNCHANGED <<qvars, lvars, gvars, helperCtx, probe, probeArg, helperPc, readyCalled, helperErr>>

\* The test of lines 59 and 65: err != nil && !errors.Is(err, context.Canceled).
\* The cause of a cancelled context is never nil.
isFailure(err) == err # nil /\ err # Canceled

\* A test of line 59 that finds no failure.
notReady_Never(cause) == FALSE

\* The test of line 59 applied to context.Cause(probe).
notReady(cause) == isFailure(cause)

\* Lines 57-63: probe is done; the helper returns the readiness failure, or calls
\* ready() and goes on to wait for the result.
HelperProbeDone ==
    /\ helperPc = "probe"
    /\ probe # None
    /\ IF notReady(probe)
       THEN /\ helperErr' = Wrap("readiness probe failed", probe)
            /\ helperPc' = "returned"
            /\ UNCHANGED readyCalled
       ELSE /\ readyCalled' = TRUE
            /\ helperPc' = "res"
            /\ UNCHANGED helperErr
    /\ UNCHANGED <<qvars, lvars, gvars, helperCtx, probe, probeArg, goPc, res>>

\* Lines 65-68: the helper receives the result of comp.Run and returns.
HelperReceive ==
    /\ helperPc = "res"
    /\ goPc = "send"
    /\ goPc' = "done"
    /\ helperErr' = IF isFailure(res) THEN Wrap("lifecycle run failed", res) ELSE nil
    /\ helperPc' = "returned"
    /\ UNCHANGED <<qvars, lvars, gvars, helperCtx, probe, probeArg, res, readyCalled>>

\* The helper was called: probe and res exist and the goroutine runs comp.Run.
HelperInit ==
    /\ helperCtx = "live"
    /\ probe = None
    /\ probeArg = None
    /\ goPc = "run"
    /\ res = None
    /\ helperPc = "probe"
    /\ readyCalled = FALSE
    /\ helperErr = None

HInit == RunInit /\ compToParents = NoComponents /\ GraphDone /\ HelperInit /\ QueueInit

HNext ==
    \/ HelperCtxDone
    \/ HelperCompProbe
    \/ HelperCompReturn
    \/ HelperProbeDone
    \/ HelperReceive

HelperSpec == HInit /\ [][HNext]_vars

-----------------------------------------------------------------------------
(* The queues: queue.go, lines 17-72 *)

\* The zero value of the item type, here int.
Zero == 0

\* The number of calls made on the two queues.
MaxCalls == 6

\* FIFOQueue.Push, lines 24-26
FIFOQueue_Push(items, item) == Append(items, item)

\* FIFOQueue.IsEmpty, lines 41-43
FIFOQueue_IsEmpty(items) == Len(items) = 0

\* A Pop that takes the last item.
FIFOQueue_Pop_Last(items) ==
    IF FIFOQueue_IsEmpty(items)
    THEN [items |-> items, x |-> Zero, ok |-> FALSE]
    ELSE [items |-> SubSeq(items, 1, Len(items) - 1), x |-> items[Len(items)], ok |-> TRUE]

\* FIFOQueue.Pop, lines 30-38: x := q.items[0]; q.items = q.items[1:]
FIFOQueue_Pop(items) ==
    IF FIFOQueue_IsEmpty(items)
    THEN [items |-> items, x |-> Zero, ok |-> FALSE]
    ELSE [items |-> SubSeq(items, 2, Len(items)), x |-> items[1], ok |-> TRUE]

\* LIFOQueue.Push, lines 52-54
LIFOQueue_Push(items, item) == Append(items, item)

\* LIFOQueue.IsEmpty, lines 70-72
LIFOQueue_IsEmpty(items) == Len(items) = 0

\* A Pop that takes the first item.
LIFOQueue_Pop_First(items) ==
    IF LIFOQueue_IsEmpty(items)
    THEN [items |-> items, x |-> Zero, ok |-> FALSE]
    ELSE [items |-> SubSeq(items, 2, Len(items)), x |-> items[1], ok |-> TRUE]

\* LIFOQueue.Pop, lines 58-67: last := len(q.items) - 1; x := q.items[last];
\* q.items = q.items[:last]
LIFOQueue_Pop(items) ==
    IF LIFOQueue_IsEmpty(items)
    THEN [items |-> items, x |-> Zero, ok |-> FALSE]
    ELSE [items |-> SubSeq(items, 1, Len(items) - 1), x |-> items[Len(items)], ok |-> TRUE]

\* The n-th item pushed on a queue is the number n, so that an item tells when it
\* was pushed.
FifoPush ==
    /\ qcalls < MaxCalls
    /\ fifo' = FIFOQueue_Push(fifo, fifoPushes + 1)
    /\ fifoPushes' = fifoPushes + 1
    /\ qop' = "FIFOQueue.Push"
    /\ qcalls' = qcalls + 1
    /\ UNCHANGED <<lvars, gvars, hvars, fifoPopped, fifoOut, lifo, lifoPushes, lifoPopped,
                   lifoOut>>

FifoPop ==
    /\ qcalls < MaxCalls
    /\ LET r == FIFOQueue_Pop(fifo)
       IN  /\ fifo' = r.items
           /\ fifoOut' = <<r.x, r.ok>>
           /\ fifoPopped' = IF r.ok THEN fifoPopped \cup {r.x} ELSE fifoPopped
    /\ qop' = "FIFOQueue.Pop"
    /\ qcalls' = qcalls + 1
    /\ UNCHANGED <<lvars, gvars, hvars, fifoPushes, lifo, lifoPushes, lifoPopped, lifoOut>>

LifoPush ==
    /\ qcalls < MaxCalls
    /\ lifo' = LIFOQueue_Push(lifo, lifoPushes + 1)
    /\ lifoPushes' = lifoPushes + 1
    /\ qop' = "LIFOQueue.Push"
    /\ qcalls' = qcalls + 1
    /\ UNCHANGED <<lvars, gvars, hvars, fifo, fifoPushes, fifoPopped, fifoOut, lifoPopped,
                   lifoOut>>

LifoPop ==
    /\ qcalls < MaxCalls
    /\ LET r == LIFOQueue_Pop(lifo)
       IN  /\ lifo' = r.items
           /\ lifoOut' = <<r.x, r.ok>>
           /\ lifoPopped' = IF r.ok THEN lifoPopped \cup {r.x} ELSE lifoPopped
    /\ qop' = "LIFOQueue.Pop"
    /\ qcalls' = qcalls + 1
    /\ UNCHANGED <<lvars, gvars, hvars, fifo, fifoPushes, fifoPopped, fifoOut, lifoPushes>>

QInit ==
    RunInit /\ compToParents = NoComponents /\ GraphDone /\ HelperIdle /\ QueueInit

QNext == FifoPush \/ FifoPop \/ LifoPush \/ LifoPop

QueueSpec == QInit /\ [][QNext]_vars

-----------------------------------------------------------------------------
(* Properties *)

Rank(s) ==
    CASE s = LifecycleStatusIdle -> 0
      [] s = LifecycleStatusRunning -> 1
      [] s = LifecycleStatusReady -> 2
      [] s = LifecycleStatusStopping -> 3
      [] s = LifecycleStatusStopped -> 4

\* The components that depend on p, directly or through other components.
RECURSIVE Reach(_, _)
Reach(S, n) ==
    IF n = 0 THEN S
    ELSE Reach(S \cup UNION {compToChildren[x] : x \in S}, n - 1)

Descendants(p) == Reach(compToChildren[p], Cardinality(Comps))

\* C1: for every edge (p -> c), comp.Run of c is entered only after p itself
\* has called its readiness probe with a nil cause.
C1_OrderedStartup ==
    \A c \in Comps : \A p \in compToParents[c] :
        entered[c] => probeCalled[p] = nil

\* C2: once p has called its readiness probe with an error, and that error is
\* the cause its probeCtx carries, no component that depends on p, directly or
\* not, has its Run entered; and a direct child whose supervision task has got
\* past its parents was aborted: Run not entered, the failure of a parent
\* returned, its probeCtx, runCtx and teardownCtx done.
C2_ParentFailureBlocksDescendants ==
    \A p \in Comps :
        (probeCalled[p] = CompErr(p) /\ probeCtx[p] = CompErr(p)) =>
            /\ \A d \in Descendants(p) : ~entered[d]
            /\ \A c \in compToChildren[p] :
                  pc[c] # "gate" =>
                      /\ runErr[c] \notin {None, nil, Canceled}
                      /\ probeCtx[c] # None
                      /\ runCtx[c] # None
                      /\ teardownCtx[c] # None

\* C3: while the runCtx of a component whose Run was entered is cancelled, the
\* teardownCtx of every child is done, unless the teardownCtx of a child
\* carries a failure.
C3_ChildStoppedBeforeParent ==
    \A p \in Comps :
        (entered[p] /\ runCtx[p] # None) =>
            \/ \A ch \in compToChildren[p] : teardownCtx[ch] # None
            \/ \E ch \in compToChildren[p] : teardownCtx[ch] \notin {None, Canceled}

\* Reached: the chain A -> B -> C was ready, the caller cancelled, and the
\* runCtx of A is cancelled after B and C returned on their own cancellation.
C3_Witness ==
    /\ compToParents = Chain
    /\ ctx = "cancelledReady"
    /\ \A c \in Comps : entered[c] /\ runCtx[c] # None
    /\ retWhen["B"] = "cancelled" /\ retWhen["C"] = "cancelled"
    /\ pc["A"] = "running"

\* C4: a teardownCtx is done only after the supervision task has its return
\* value, and the cause it carries is the one cancelTeardown records for that value.
C4_TeardownCarriesRunResult ==
    \A c \in Comps :
        teardownCtx[c] # None =>
            /\ runErr[c] # None
            /\ teardownCtx[c] = CancelCause(None, runErr[c])

\* The children of p whose Run has returned an error of their own.
FailedChildren(p) ==
    {ch \in compToChildren[p] : entered[ch] /\ runErr[ch] = CompErr(ch)}

\* C5: when the runCtx of a running p becomes cancelled after the Run of a
\* child returned an error of its own, the cause is that error (the caller not
\* having cancelled before readiness).
C5_ChildFailureReachesParent ==
    [][\A p \in Comps :
          ( /\ entered[p] /\ runCtx[p] = None /\ runCtx'[p] # None
            /\ ctx # "cancelledEarly"
            /\ FailedChildren(p) # {} )
              => runCtx'[p] \in {runErr[ch] : ch \in FailedChildren(p)}]_vars

\* C6: the status never moves back in idle < running < ready < stopping < stopped.
C6_MonotonicStatus == [][Rank(status') >= Rank(status)]_vars

\* C7: the value Run returns is the cause recorded on lifecycleCtx.
C7_RunReturnsLifecycleCause ==
    mainPc = "returned" => result = lifecycleCtx

\* C8: when the Run of x returned an error of its own after every component had
\* signalled ready, that error is what cancelled the lifecycle, and every other
\* component returned nil or ctx.Err() after its runCtx was cancelled, Run
\* returns the error of x.
C8_FailingComponentErrorReported ==
    mainPc = "returned" =>
        \A x \in Comps :
            ( /\ entered[x] /\ runErr[x] = CompErr(x) /\ retReady[x]
              /\ lifecycleCtx = CompErr(x)
              /\ \A y \in Comps \ {x} :
                    /\ entered[y] /\ retWhen[y] = "cancelled"
                    /\ runErr[y] \in {nil, Canceled} )
            => result = CompErr(x)

\* C9: when a Run returns nil while lifecycleCtx is not cancelled, lifecycleCtx
\* becomes cancelled with UnexpectedCloseComponentError; and from then on the
\* runCtx of every component becomes cancelled.
C9_UnexpectedClose ==
    /\ [][\A c \in Comps :
             ( /\ pc[c] = "running" /\ pc'[c] # "running"
               /\ runErr'[c] = nil /\ lifecycleCtx = None )
             => lifecycleCtx' = UnexpectedCloseComponentError]_vars
    /\ (lifecycleCtx = UnexpectedCloseComponentError)
          ~> (\A c \in Comps : runCtx[c] # None)

\* Reached: C of the chain returned nil on its own, and the runCtx of every
\* component is cancelled.
C9_Witness ==
    /\ compToParents = Chain
    /\ runErr["C"] = nil /\ retWhen["C"] = "early"
    /\ lifecycleCtx = UnexpectedCloseComponentError
    /\ \A c \in Comps : runCtx[c] # None

\* C10: when the caller cancelled after every component had signalled ready and
\* every Run returned nil after its runCtx was cancelled, Run returns
\* context.Canceled.
C10_OrderlyShutdown ==
    ( /\ mainPc = "returned"
      /\ ctx = "cancelledReady"
      /\ \A c \in Comps : entered[c] /\ retWhen[c] = "cancelled" /\ runErr[c] = nil )
    => result = Canceled

\* Reached: three components, all ready, cancelled by the caller, all returned nil.
C10_Witness ==
    /\ mainPc = "returned"
    /\ ctx = "cancelledReady"
    /\ Cardinality(Comps) = 3
    /\ \A c \in Comps : entered[c] /\ retWhen[c] = "cancelled" /\ runErr[c] = nil
    /\ result = Canceled


\* C11: the readiness callback gets nil only if every component has itself
\* called its readiness probe with a nil cause.
C11_VerdictNilMeansAllReady == verdict = nil => AllSelfReady

\* C12: while the status is ready, every component has called its readiness
\* probe with a nil cause.
C12_StatusReadyMeansAllReady == status = LifecycleStatusReady => AllSelfReady

\* C13: when p called its readiness probe with an error, and that error is the
\* cause its probeCtx carries, the readiness callback gets that error.
C13_VerdictIsReadinessFailure ==
    \A p \in Comps :
        (verdict # None /\ probeCalled[p] = CompErr(p) /\ probeCtx[p] = CompErr(p))
            => verdict = CompErr(p)


\* C14: the readiness callback is invoked, and once it has been invoked it is
\* not invoked again.
C14_VerdictExactlyOnce ==
    /\ [](verdict # None => ~ENABLED Aggregator)
    /\ <>(verdict # None)

\* Reached: the callback was invoked with an error after a start timeout.
C14_Witness ==
    /\ aggPc = "done"
    /\ verdict = DeadlineExceeded


\* C15: when the start timeout of a component elapsed, its prober reports
\* DeadlineExceeded, and the readiness callback gets DeadlineExceeded.
C15_StartTimeoutReported ==
    \A c \in Comps :
        proberPc[c] \in {"cancel", "ret", "done"} /\ proberVal[c] = DeadlineExceeded
            => (verdict # None => verdict = DeadlineExceeded)

\* C16: the start timeout of a component elapses only after its Run was entered.
C16_TimeoutWindowStartsAtRun ==
    \A c \in Comps :
        proberPc[c] = "cancel" /\ proberVal[c] = DeadlineExceeded => entered[c]


\* Every supervision task has returned, Run has returned and the status has
\* been stopped.
Terminated ==
    /\ \A c \in Comps : runCtx[c] # None /\ pc[c] = "done"
    /\ finPc = "done"
    /\ mainPc = "returned"

\* C17: once the caller's context is cancelled, the runCtx of every component
\* becomes cancelled, every supervision task returns, the status becomes
\* stopped and Run returns.
C17_CancellationCompleteness ==
    /\ (ctx # "live") ~> (status = LifecycleStatusStopped)
    /\ (ctx # "live") ~> Terminated

\* A component has returned an error of its own from Run, or the error it
\* passed to its readiness probe is the cause of its probeCtx.
Failed ==
    \E c \in Comps : runErr[c] = CompErr(c) \/ probeCtx[c] = CompErr(c)

C20_StatusTransitionGuards ==
    /\ [](/\ setStatusOk(LifecycleStatusReady) <=> status = LifecycleStatusRunning
          /\ setStatus(LifecycleStatusReady) =
                IF status = LifecycleStatusRunning THEN LifecycleStatusReady ELSE status
          /\ setStatusOk(LifecycleStatusStopping) <=>
                status \in {LifecycleStatusRunning, LifecycleStatusReady}
          /\ setStatus(LifecycleStatusStopping) =
                IF status \in {LifecycleStatusRunning, LifecycleStatusReady}
                THEN LifecycleStatusStopping ELSE status)
    /\ [][status' # status =>
            /\ status' = LifecycleStatusReady => status = LifecycleStatusRunning
            /\ status' = LifecycleStatusStopping =>
                  status \in {LifecycleStatusRunning, LifecycleStatusReady}]_vars

\* Reached: the requests for stopping and for ready were both made while the
\* status was idle, and were ignored.
C20_Witness ==
    /\ Comps # {}
    /\ stopperPc = "done"
    /\ aggPc = "done" /\ verdict = nil
    /\ status = LifecycleStatusIdle

\* C21: whenever the lifecycle status is stopped, the supervision task of every
\* component has returned and its teardown scope has fired; no Run of a
\* component is still executing.
C21_StoppedMeansAllReturned ==
    status = LifecycleStatusStopped =>
        \A c \in Comps : pc[c] = "done" /\ teardownCtx[c] # None

C21_Witness ==
    /\ compToParents = Chain
    /\ status = LifecycleStatusStopped
    /\ \A c \in Comps : entered[c]

\* C33: a scope that has a cause keeps it: the lifecycle scope, the probe, run
\* and teardown scope of every component and the teardown scope of Run.
C33_FirstCauseWins ==
    [][/\ lifecycleCtx # None => lifecycleCtx' = lifecycleCtx
       /\ lcTeardownCtx # None => lcTeardownCtx' = lcTeardownCtx
       /\ \A c \in Comps :
              /\ probeCtx[c] # None => probeCtx'[c] = probeCtx[c]
              /\ runCtx[c] # None => runCtx'[c] = runCtx[c]
              /\ teardownCtx[c] # None => teardownCtx'[c] = teardownCtx[c]]_vars

\* Run has cancelled the lifecycle scope with Canceled (line 412) after a
\* component had cancelled it with its error.
C33_Witness ==
    /\ mainPc = "returned"
    /\ \E c \in Comps : lifecycleCtx = CompErr(c) /\ runCtx[c] # None

\* C36: once Run has returned the status is stopped.
C36_FinalStatus ==
    mainPc = "returned" => status = LifecycleStatusStopped

\* C37: the goroutine that waits for the parents of a component is never left
\* blocked on its channel.
C37_ParentWaiterTerminates ==
    \A c \in Comps : ~parentWaiterBlocked(c)

\* A parent of c failed its readiness: its probe scope carries a failure.
ParentFailedReadiness(c) ==
    \E p \in compToParents[c] : probeCtx[p] # None /\ waitCtxErr(probeCtx[p]) # nil

\* C38: the run scope of a component is cancelled only when the lifecycle scope
\* is cancelled or a parent of the component failed its readiness.
C38_RunScopeCancelledForCause ==
    \A c \in Comps :
        runCtx[c] # None => lifecycleCtx # None \/ ParentFailedReadiness(c)

\* The run scope of a component whose Run is executing was cancelled.
C38_Witness ==
    \E c \in Comps : runCtx[c] # None /\ pc[c] = "running" /\ cwDone[c]

-----------------------------------------------------------------------------
(* Properties of the registration and of the dependency graph *)

\* The parents of every registered component, as registered and as held.
RegisteredParents == [comp \in components |-> findParentComponents(comp)]

\* The components that comp reaches through n + 1 edges or fewer.
RECURSIVE Ancestors(_, _, _)
Ancestors(P, S, n) ==
    IF n = 0 THEN S
    ELSE Ancestors(P, S \cup UNION {P[x] : x \in S}, n - 1)

OnCycle(P, comp) == comp \in Ancestors(P, P[comp], Cardinality(DOMAIN P))

Cyclic(P) == \E comp \in DOMAIN P : OnCycle(P, comp)

\* C22: under the default policy the construction of the graph of a cyclic
\* registration panics, whichever order the traversal takes: it neither
\* returns a graph nor goes on for ever.
C22_CycleRejection ==
    (gpc = "range" /\ ~ignoreCircularDependency /\ Cyclic(RegisteredParents))
        ~> (gpc \in {"panic", "overflow"})

\* C23: with WithCircularDependency the construction of the graph ends, and
\* ends without a panic.
C23_CycleSafety ==
    (gpc = "range" /\ ignoreCircularDependency)
        ~> (gpc \in {"idle", "returned", "overflow"})

\* The union of the structurally discovered and the implicit parents of comp.
UnionOfParents(comp) == structuralParents(comp) \cup compToImplicitDeps[comp]

\* C24: with the registration unchanged, the graph Run builds is the graph
\* Dependencies() built before it, under both policies and whatever order the
\* traversals took.
C24_DeterministicConstruction ==
    (gpc = "returned" /\ deps # <<>>) => Dependencies = deps[1]

\* C25: a call of Register keeps every registered component and every implicit
\* parent it had, the table has one entry for each registered component, and
\* every implicit parent is a registered component.
C25_RegistrationMerges ==
    [][/\ components \subseteq components'
       /\ \A comp \in components :
              compToImplicitDeps[comp] \subseteq compToImplicitDeps'[comp]
       /\ DOMAIN compToImplicitDeps' = components'
       /\ \A comp \in components' : compToImplicitDeps'[comp] \subseteq components']_vars

\* A has three implicit parents, and one call passes two at most.
C25_Witness ==
    /\ "A" \in components
    /\ compToImplicitDeps["A"] = Objects
    /\ ~registerPanic

\* C26 as stated: the list Dependencies() returns has the registered components
\* as its keys and maps each to the union of its structural and its implicit
\* parents.
C26_AsStated ==
    deps # <<>> =>
        /\ DOMAIN deps[1] = components
        /\ \A comp \in components : deps[1][comp] = UnionOfParents(comp)

\* C26: the list Dependencies() returns has the registered components as its
\* keys and maps each to the union of its structural and its implicit parents,
\* or to the empty list when cycles are allowed and the component lies on one;
\* the call changes neither the registration table nor the status.
C26_DependenciesSnapshot ==
    /\ [](deps # <<>> =>
            /\ DOMAIN deps[1] = components
            /\ \A comp \in components :
                   \/ deps[1][comp] = UnionOfParents(comp)
                   \/ /\ ignoreCircularDependency
                      /\ OnCycle(RegisteredParents, comp)
                      /\ deps[1][comp] = {})
    /\ [][caller' = "Dependencies" =>
            UNCHANGED <<components, compToImplicitDeps, status>>]_vars

C26_Witness ==
    /\ deps # <<>>
    /\ \E comp \in components :
          /\ structuralParents(comp) # {}
          /\ compToImplicitDeps[comp] \ structuralParents(comp) # {}
          /\ deps[1][comp] = UnionOfParents(comp)

\* C27: a call of Register with the nil component or with a component that is
\* not a pointer panics and leaves the registration table as it was.
C27_RegisterRejectsNonPointer ==
    [][(registerCalls' # registerCalls /\ ~(registerArg' \in Objects)) =>
          /\ registerPanic'
          /\ UNCHANGED <<components, compToImplicitDeps>>]_vars

C27_Witness ==
    /\ registerArg = NilComponent
    /\ registerPanic
    /\ components # {}

\* The graph findCircularDependencies works on and leaves is in place.
GraphInWork == gpc \in {"range", "bfs", "parents", "returned"}

\* The edge from comp to its parent p lies on a cycle of P: comp is reached from p.
EdgeOnCycle(P, comp, p) == comp \in Ancestors(P, {p}, Cardinality(DOMAIN P))

\* The edges of the registration that are no longer in the graph.
RemovedEdges ==
    {e \in components \X components :
        e[2] \in RegisteredParents[e[1]] /\ ~(e[2] \in parentsOfNode(e[1]))}

\* C34 as stated: with cycles allowed, every edge removed from the graph lies on
\* a cycle of the registered graph.
C34_AsStated ==
    GraphInWork =>
        \A e \in RemovedEdges : EdgeOnCycle(RegisteredParents, e[1], e[2])

\* C34: with cycles allowed, every edge removed from the graph starts at a
\* component that lies on a cycle of the registered graph, and is removed with
\* all the edges of that component; the edges of a component on no cycle stay.
C34_ElisionRemovesEntriesOnCycles ==
    GraphInWork =>
        \A e \in RemovedEdges :
            /\ ignoreCircularDependency
            /\ OnCycle(RegisteredParents, e[1])
            /\ parentsOfNode(e[1]) = {}

\* An edge on no cycle went with the entry of a component on a cycle.
C34_Witness ==
    /\ gpc = "returned"
    /\ \E e \in RemovedEdges : ~EdgeOnCycle(RegisteredParents, e[1], e[2])

\* The children map Run builds from the graph, lifecycle.go:338.
GraphChildren == buildCompToChildren(graph)

\* C35: after the construction the children map is the inverse of the parents
\* map, and every component in either map is registered.
C35_GraphWellFormed ==
    gpc = "returned" =>
        /\ \A p \in Objects, c \in Objects :
               c \in childrenOf(GraphChildren, p) <=> p \in parentsOfNode(c)
        /\ DOMAIN graph \subseteq components
        /\ DOMAIN GraphChildren \subseteq components
        /\ \A c \in DOMAIN graph : graph[c] \subseteq components
        /\ \A p \in DOMAIN GraphChildren : GraphChildren[p] \subseteq components

\* A component whose entry was removed still has a child.
C35_Witness ==
    /\ gpc = "returned"
    /\ \E p \in components : ~(p \in DOMAIN graph) /\ childrenOf(GraphChildren, p) # {}

\* C39: with cycles allowed, the graph the construction returns has no cycle.
C39_ElisionYieldsAcyclic ==
    (gpc = "returned" /\ ignoreCircularDependency) => ~Cyclic(Dependencies)

C39_Witness ==
    /\ gpc = "returned"
    /\ ignoreCircularDependency
    /\ components = Objects
    /\ \A comp \in components : OnCycle(RegisteredParents, comp)

-----------------------------------------------------------------------------
(* Properties of the helper Run *)

\* C28: when comp.Run returned an error of its own, here without having called
\* its readiness probe, the helper is not left waiting: it can go on to return,
\* and when it has returned, its error wraps that error and it has not called
\* ready.
C28_FailingComponent ==
    /\ (goPc = "send" /\ res = RunError /\ probeArg = None /\ helperPc # "returned") =>
           ENABLED (HelperProbeDone \/ HelperReceive)
    /\ (helperPc = "returned" /\ res = RunError /\ probeArg = None) =>
           /\ helperErr = Wrap("lifecycle run failed", RunError)
           /\ ~readyCalled

C30_ContextEndsFirst ==
    /\ readyCalled => probeArg = nil
    /\ (helperPc = "returned" /\ probeArg = None) =>
           ~readyCalled /\ helperErr # nil

\* C40: once the helper has returned, the goroutine that runs comp.Run is not
\* blocked in the send of its result, which nobody will receive.
C40_NoGoroutineLeftSending ==
    helperPc = "returned" => goPc # "send"

-----------------------------------------------------------------------------
(* Properties of the queues *)

\* The items pushed on the FIFOQueue, and on the LIFOQueue, that no Pop returned.
FifoPending == (1..fifoPushes) \ fifoPopped
LifoPending == (1..lifoPushes) \ lifoPopped

Oldest(S) == CHOOSE x \in S : \A y \in S : x <= y
Newest(S) == CHOOSE x \in S : \A y \in S : x >= y

\* C31: a Pop of the FIFOQueue returns the oldest item pushed and not yet
\* popped, or the zero value and false, leaving the queue empty, when there is
\* none; IsEmpty is true exactly when as many items were popped as were pushed.
C31_FifoOrder ==
    /\ [](FIFOQueue_IsEmpty(fifo) <=> fifoPushes = Cardinality(fifoPopped))
    /\ [][(qop' = "FIFOQueue.Pop" /\ qcalls' # qcalls) =>
            IF FifoPending = {}
            THEN fifoOut' = <<Zero, FALSE>> /\ fifo' = <<>>
            ELSE fifoOut' = <<Oldest(FifoPending), TRUE>>]_vars

\* Three items were pushed and two popped, then a fourth was pushed.
C31_Witness ==
    /\ fifoPushes = 4
    /\ fifoPopped = {1, 2}
    /\ fifo = <<3, 4>>

\* C32: a Pop of the LIFOQueue returns the item pushed last among those not yet
\* popped, or the zero value and false, leaving the queue empty, when there is
\* none.
C32_LifoOrder ==
    [][(qop' = "LIFOQueue.Pop" /\ qcalls' # qcalls) =>
          IF LifoPending = {}
          THEN lifoOut' = <<Zero, FALSE>> /\ lifo' = <<>>
          ELSE lifoOut' = <<Newest(LifoPending), TRUE>>]_vars

\* Pushes and pops were mixed: 2 was popped before 3 was pushed and popped.
C32_Witness ==
    /\ lifoPushes = 3
    /\ lifoPopped = {2, 3}
    /\ lifo = <<1>>
    /\ lifoOut = <<3, TRUE>>

====
